---- MODULE Spec2Model ----
(***************************************************************************)
(* Model of the market-data aggregator: the WebSocketClient connection     *)
(* state machine (websocket_client.cpp), the PriceFeedServer fan-out       *)
(* (price_feed_server.cpp) and the way main.cpp wires them together.       *)
(*                                                                         *)
(* Every asynchronous operation is an entry of `pending`; its completion   *)
(* handler is one action, taking the error code as a parameter.  The       *)
(* on_read handler is split where it can block: at the fan-out mutex and   *)
(* at each blocking socket write of broadcast_price.                       *)
(***************************************************************************)
EXTENDS Integers, Sequences, FiniteSets, TLC

\* Two of the five sessions main() creates: Binance subscribes through its
\* URL (empty subscribe message), Kraken sends a subscribe command.
Sessions == {"Binance", "Kraken"}

MAX_RECONNECT_ATTEMPTS == 10

\* Bounds of the model.
MaxUpdates == 2      \* tick frames the venues deliver in one run
MaxConns == 2        \* consumer connections accepted in one run
LineChunks == 2      \* send() calls one asio::write of a line may need
BufCap == 1          \* chunks a consumer socket buffers before send blocks

Ops == {"resolve", "connect", "ssl_handshake", "ws_handshake", "write", "read", "timer"}
\* operations that run on the stream object *ws_
StreamOps == {"connect", "ssl_handshake", "ws_handshake", "write", "read"}
ErrorCodes == {"ok", "err"}
\* the error code of a read that fails in the middle of a frame
Partial == "partial"
Frames == {"tick", "other"}
NoOps == [op \in Ops |-> 0]
None == "none"
Acceptor == "acceptor"
Conns == 1..MaxConns
Updates == 1..MaxUpdates

VARIABLES
    \* WebSocketClient members, per session
    running_, reconnect_attempts_, ws_, buffer_, pending,
    \* history of each session
    started, stopped, last, allFail, nResolve, nTimer, sinceWs, ub, crashed,
    \* position of a session's on_read handler inside broadcast_price
    bpc, cur, nextU,
    \* PriceFeedServer members and the locals of the running broadcast_price
    clients_, clients_mutex_, bIdx, bPart, bKept,
    \* history of the fan-out
    acqOrder, retBefore, failedIn, joinAt,
    \* acceptor and consumer connections
    accPc, nextConn, peer, sent, unread,
    \* main(): the flag the signal handler clears, the position of the main
    \* thread, the value main() returned, the error code of the last accept
    running, mainPc, exitCode, accLast,
    \* one call of a venue's parse_message: its receiver, its argument, its
    \* position, the records handed to the callback, the exception it let out
    venue, frame, ppc, emitted, raised

sessVars == <<running_, reconnect_attempts_, ws_, buffer_, pending, started, stopped,
              last, allFail, nResolve, nTimer, sinceWs, ub, crashed>>
readVars == <<bpc, cur, nextU, retBefore>>
bcastVars == <<clients_, clients_mutex_, bIdx, bPart, bKept, acqOrder, failedIn>>
connVars == <<accPc, nextConn, peer, sent, unread, joinAt>>
mainVars == <<running, mainPc, exitCode, accLast>>
parseVars == <<venue, frame, ppc, emitted, raised>>
envVars == <<mainVars, parseVars>>
vars == <<sessVars, readVars, bcastVars, connVars, envVars>>

Issue(p, op) == [p EXCEPT ![op] = @ + 1]
Complete(p, op) == [p EXCEPT ![op] = @ - 1]
StreamBusy(p) == \E op \in StreamOps : p[op] > 0
Idle(s) == pending[s] = NoOps /\ bpc[s] = None
Range(q) == {q[i] : i \in 1..Len(q)}

\* History: the updates whose broadcast_price call has returned.
Returned == Range(acqOrder) \ {cur[s] : s \in {x \in Sessions : bpc[x] = "iter"}}

\* get_subscribe_message().empty()
SubscribeMsgEmpty(s) == s = "Binance"

\* parse_message reaches notify_price_update for this frame
IsTick(f) == f = "tick"

\* buffer_ (a beast::flat_buffer) as far as its content matters: Empty, or
\* Stale when it holds bytes of a frame whose read did not complete.
Empty == "empty"
Stale == "stale"

\* The value of exitCode while main() has not returned.
NotExited == -1

\* What a parser looks at in a frame: the first character (top), whether the
\* text holds the literal "ticker", the last quoted token, and for each key
\* the first quoted string after it (Absent: the key does not occur).
FrameKeys == {"s", "b", "a", "type", "product_id", "best_bid", "best_ask", "topic",
              "data", "symbol", "bid1Price", "ask1Price", "instId", "bidPx", "askPx"}
Absent == "<absent>"
EmptyObject == [top |-> "object", ticker |-> FALSE, last |-> "",
                kv |-> [k \in FrameKeys |-> Absent]]

\* main() has installed the handlers and is in its run loop.
MainRunning ==
    /\ running = TRUE
    /\ mainPc = "run"
    /\ exitCode = NotExited
    /\ accLast = None

\* No call of parse_message is being looked at.
ParserIdle ==
    /\ venue = "Binance"
    /\ frame = EmptyObject
    /\ ppc = None
    /\ emitted = <<>>
    /\ raised = FALSE

\* The sessions and the server as their constructors leave them.
Constructed ==
    /\ running_ = [s \in Sessions |-> FALSE]
    /\ reconnect_attempts_ = [s \in Sessions |-> 0]
    /\ ws_ = [s \in Sessions |-> "closed"]
    /\ buffer_ = [s \in Sessions |-> Empty]
    /\ pending = [s \in Sessions |-> NoOps]
    /\ started = [s \in Sessions |-> 0]
    /\ stopped = [s \in Sessions |-> FALSE]
    /\ last = [s \in Sessions |-> None]
    /\ allFail = [s \in Sessions |-> TRUE]
    /\ nResolve = [s \in Sessions |-> 0]
    /\ nTimer = [s \in Sessions |-> 0]
    /\ sinceWs = [s \in Sessions |-> 0]
    /\ ub = [s \in Sessions |-> FALSE]
    /\ crashed = FALSE
    /\ bpc = [s \in Sessions |-> None]
    /\ cur = [s \in Sessions |-> 0]
    /\ nextU = 1
    /\ clients_ = <<>>
    /\ clients_mutex_ = None
    /\ bIdx = [s \in Sessions |-> 0]
    /\ bPart = [s \in Sessions |-> 0]
    /\ bKept = [s \in Sessions |-> <<>>]
    /\ acqOrder = <<>>
    /\ retBefore = [u \in Updates |-> {}]
    /\ failedIn = [c \in Conns |-> 0]
    /\ joinAt = [c \in Conns |-> 0]
    /\ accPc = None
    /\ nextConn = 1
    /\ peer = [c \in Conns |-> None]
    /\ sent = [c \in Conns |-> <<>>]
    /\ unread = [c \in Conns |-> 0]

Init == Constructed /\ MainRunning /\ ParserIdle

----------------------------------------------------------------------------
(* WebSocketClient *)

\* History: resolves and timers issued while every resolve so far has failed.
CountResolve(s) ==
    nResolve' = [nResolve EXCEPT ![s] = IF allFail[s] THEN @ + 1 ELSE @]
CountTimer(s) ==
    nTimer' = [nTimer EXCEPT ![s] = IF allFail[s] THEN @ + 1 ELSE @]

\* History: the attempts reconnect() has made since start() or since the last
\* successful WebSocket handshake.
CountAttempt(s) ==
    sinceWs' = [sinceWs EXCEPT ![s] = @ + 1]

\* The guard of reconnect(): false means the early return.
ReconnectAllowedOver(s) ==
    running_[s] /\ reconnect_attempts_[s] <= MAX_RECONNECT_ATTEMPTS
ReconnectAllowedIgnoringStop(s) ==
    reconnect_attempts_[s] < MAX_RECONNECT_ATTEMPTS
ReconnectAllowed(s) ==
    running_[s] /\ reconnect_attempts_[s] < MAX_RECONNECT_ATTEMPTS

\* reconnect(), called by a handler that has left p pending.
ReconnectCountsTwice(s, p) ==
    IF ReconnectAllowed(s)
    THEN /\ reconnect_attempts_' = [reconnect_attempts_ EXCEPT ![s] = @ + 2]
         /\ ws_' = [ws_ EXCEPT ![s] = "closed"]
         /\ ub' = [ub EXCEPT ![s] = @ \/ StreamBusy(p)]
         /\ pending' = [pending EXCEPT ![s] = Issue(p, "timer")]
         /\ CountTimer(s)
         /\ CountAttempt(s)
    ELSE /\ pending' = [pending EXCEPT ![s] = p]
         /\ UNCHANGED <<reconnect_attempts_, ws_, ub, nTimer, sinceWs>>
ReconnectCapStopsAll(s, p) ==
    IF ReconnectAllowed(s)
    THEN /\ reconnect_attempts_' = [reconnect_attempts_ EXCEPT ![s] = @ + 1]
         /\ ws_' = [ws_ EXCEPT ![s] = "closed"]
         /\ ub' = [ub EXCEPT ![s] = @ \/ StreamBusy(p)]
         /\ pending' = [pending EXCEPT ![s] = Issue(p, "timer")]
         /\ CountTimer(s)
         /\ CountAttempt(s)
    ELSE /\ pending' = [t \in Sessions |-> IF t = s THEN p ELSE NoOps]
         /\ UNCHANGED <<reconnect_attempts_, ws_, ub, nTimer, sinceWs>>
Reconnect(s, p) ==
    IF ReconnectAllowed(s)
    THEN /\ reconnect_attempts_' = [reconnect_attempts_ EXCEPT ![s] = @ + 1]
         /\ ws_' = [ws_ EXCEPT ![s] = "closed"]
         /\ ub' = [ub EXCEPT ![s] = @ \/ StreamBusy(p)]
         /\ pending' = [pending EXCEPT ![s] = Issue(p, "timer")]
         /\ CountTimer(s)
         /\ CountAttempt(s)
    ELSE /\ pending' = [pending EXCEPT ![s] = p]
         /\ UNCHANGED <<reconnect_attempts_, ws_, ub, nTimer, sinceWs>>

\* A handler that issues the stream operation op, having left p pending.
IssueOnStream(s, p, op) ==
    /\ pending' = [pending EXCEPT ![s] = Issue(p, op)]
    /\ ub' = [ub EXCEPT ![s] = @ \/ StreamBusy(p)]

\* start()
StartCall(s) ==
    /\ ~crashed
    /\ running_' = [running_ EXCEPT ![s] = TRUE]
    /\ reconnect_attempts_' = [reconnect_attempts_ EXCEPT ![s] = 0]
    /\ pending' = [pending EXCEPT ![s] = Issue(@, "resolve")]
    /\ CountResolve(s)
    /\ started' = [started EXCEPT ![s] = @ + 1]
    /\ last' = [last EXCEPT ![s] = "start"]
    /\ sinceWs' = [sinceWs EXCEPT ![s] = 0]
    /\ UNCHANGED <<ws_, stopped, buffer_, allFail, nTimer, ub, crashed>>
    /\ UNCHANGED <<readVars, bcastVars, connVars>>
    /\ UNCHANGED envVars

\* The one call of start() main() makes on each session.
Start(s) == started[s] = 0 /\ ~stopped[s] /\ StartCall(s)

\* A second call of start() on a started session, which main() never makes.
StartAgain(s) == started[s] = 1 /\ ~stopped[s] /\ StartCall(s)

\* stop(): running_ = false, then a synchronous close of the WebSocket
\* stream, which acts only on a stream whose handshake has completed.
Stop(s) ==
    /\ ~crashed
    /\ started[s] > 0 /\ ~stopped[s]
    /\ running_' = [running_ EXCEPT ![s] = FALSE]
    /\ ws_' = [ws_ EXCEPT ![s] = "closed"]
    /\ ub' = [ub EXCEPT ![s] = @ \/ (ws_[s] = "open" /\ StreamBusy(pending[s]))]
    /\ stopped' = [stopped EXCEPT ![s] = TRUE]
    /\ last' = [last EXCEPT ![s] = "stop"]
    /\ UNCHANGED <<reconnect_attempts_, buffer_, pending, started, allFail, nResolve, nTimer,
                   sinceWs, crashed>>
    /\ UNCHANGED <<readVars, bcastVars, connVars>>
    /\ UNCHANGED envVars

\* Completion handler of async_resolve.
OnResolve(s, ec) ==
    /\ ~crashed
    /\ pending[s]["resolve"] > 0
    /\ LET p == Complete(pending[s], "resolve") IN
       IF ec = "err"
       THEN /\ Reconnect(s, p)
            /\ UNCHANGED <<allFail, nResolve>>
       ELSE /\ IssueOnStream(s, p, "connect")
            /\ allFail' = [allFail EXCEPT ![s] = FALSE]
            /\ nResolve' = [nResolve EXCEPT ![s] = 0]
            /\ nTimer' = [nTimer EXCEPT ![s] = 0]
            /\ UNCHANGED <<reconnect_attempts_, ws_, sinceWs>>
    /\ last' = [last EXCEPT ![s] = "resolve_" \o ec]
    /\ UNCHANGED <<running_, started, stopped, buffer_, crashed>>
    /\ UNCHANGED <<readVars, bcastVars, connVars>>
    /\ UNCHANGED envVars

\* Completion handler of async_connect; on success ssl_handshake() sets the
\* SNI host name (sni = FALSE: SSL_set_tlsext_host_name failed).
OnConnectSniGivesUp(s, ec, sni) ==
    /\ ~crashed
    /\ pending[s]["connect"] > 0
    /\ LET p == Complete(pending[s], "connect") IN
       IF ec = "err"
       THEN Reconnect(s, p)
       ELSE IF ~sni
       THEN /\ pending' = [pending EXCEPT ![s] = p]
            /\ UNCHANGED <<reconnect_attempts_, ws_, ub, nTimer, sinceWs>>
       ELSE /\ IssueOnStream(s, p, "ssl_handshake")
            /\ UNCHANGED <<reconnect_attempts_, ws_, nTimer, sinceWs>>
    /\ last' = [last EXCEPT ![s] = IF ec = "err" THEN "connect_err"
                                   ELSE IF sni THEN "connect_ok" ELSE "sni_err"]
    /\ UNCHANGED <<running_, started, stopped, buffer_, allFail, nResolve, crashed>>
    /\ UNCHANGED <<readVars, bcastVars, connVars>>
    /\ UNCHANGED envVars
OnConnect(s, ec, sni) ==
    /\ ~crashed
    /\ pending[s]["connect"] > 0
    /\ LET p == Complete(pending[s], "connect") IN
       IF ec = "err" \/ ~sni
       THEN Reconnect(s, p)
       ELSE /\ IssueOnStream(s, p, "ssl_handshake")
            /\ UNCHANGED <<reconnect_attempts_, ws_, nTimer, sinceWs>>
    /\ last' = [last EXCEPT ![s] = IF ec = "err" THEN "connect_err"
                                   ELSE IF sni THEN "connect_ok" ELSE "sni_err"]
    /\ UNCHANGED <<running_, started, stopped, buffer_, allFail, nResolve, crashed>>
    /\ UNCHANGED <<readVars, bcastVars, connVars>>
    /\ UNCHANGED envVars

\* Completion handler of the TLS async_handshake.
OnSslHandshake(s, ec) ==
    /\ ~crashed
    /\ pending[s]["ssl_handshake"] > 0
    /\ LET p == Complete(pending[s], "ssl_handshake") IN
       IF ec = "err"
       THEN Reconnect(s, p)
       ELSE /\ IssueOnStream(s, p, "ws_handshake")
            /\ UNCHANGED <<reconnect_attempts_, ws_, nTimer, sinceWs>>
    /\ last' = [last EXCEPT ![s] = "ssl_" \o ec]
    /\ UNCHANGED <<running_, started, stopped, buffer_, allFail, nResolve, crashed>>
    /\ UNCHANGED <<readVars, bcastVars, connVars>>
    /\ UNCHANGED envVars

\* subscribe(): read() when the subscribe message is empty, else async_write.
SubscribeOpAlwaysWrites(s) == "write"
SubscribeOp(s) == IF SubscribeMsgEmpty(s) THEN "read" ELSE "write"

\* Completion handler of the WebSocket async_handshake, without the reset.
OnWsHandshakeKeep(s, ec) ==
    /\ ~crashed
    /\ pending[s]["ws_handshake"] > 0
    /\ LET p == Complete(pending[s], "ws_handshake") IN
       IF ec = "err"
       THEN Reconnect(s, p)
       ELSE /\ IssueOnStream(s, p, SubscribeOp(s))
            /\ ws_' = [ws_ EXCEPT ![s] = "open"]
            /\ sinceWs' = [sinceWs EXCEPT ![s] = 0]
            /\ UNCHANGED <<reconnect_attempts_, nTimer>>
    /\ last' = [last EXCEPT ![s] = "ws_" \o ec]
    /\ UNCHANGED <<running_, started, stopped, buffer_, allFail, nResolve, crashed>>
    /\ UNCHANGED <<readVars, bcastVars, connVars>>
    /\ UNCHANGED envVars

\* Completion handler of the WebSocket async_handshake.
OnWsHandshakeResetIfUrl(s, ec) ==
    /\ ~crashed
    /\ pending[s]["ws_handshake"] > 0
    /\ LET p == Complete(pending[s], "ws_handshake") IN
       IF ec = "err"
       THEN Reconnect(s, p)
       ELSE /\ reconnect_attempts_' =
                  [reconnect_attempts_ EXCEPT ![s] = IF SubscribeMsgEmpty(s) THEN 0 ELSE @]
            /\ sinceWs' = [sinceWs EXCEPT ![s] = 0]
            /\ IssueOnStream(s, p, SubscribeOp(s))
            /\ ws_' = [ws_ EXCEPT ![s] = "open"]
            /\ UNCHANGED nTimer
    /\ last' = [last EXCEPT ![s] = "ws_" \o ec]
    /\ UNCHANGED <<running_, started, stopped, buffer_, allFail, nResolve, crashed>>
    /\ UNCHANGED <<readVars, bcastVars, connVars>>
    /\ UNCHANGED envVars
OnWsHandshake(s, ec) ==
    /\ ~crashed
    /\ pending[s]["ws_handshake"] > 0
    /\ LET p == Complete(pending[s], "ws_handshake") IN
       IF ec = "err"
       THEN Reconnect(s, p)
       ELSE /\ reconnect_attempts_' = [reconnect_attempts_ EXCEPT ![s] = 0]
            /\ sinceWs' = [sinceWs EXCEPT ![s] = 0]
            /\ IssueOnStream(s, p, SubscribeOp(s))
            /\ ws_' = [ws_ EXCEPT ![s] = "open"]
            /\ UNCHANGED nTimer
    /\ last' = [last EXCEPT ![s] = "ws_" \o ec]
    /\ UNCHANGED <<running_, started, stopped, buffer_, allFail, nResolve, crashed>>
    /\ UNCHANGED <<readVars, bcastVars, connVars>>
    /\ UNCHANGED envVars

\* Completion handler of the subscription async_write.
OnSubscribeWriteNoReturn(s, ec) ==
    /\ ~crashed
    /\ pending[s]["write"] > 0
    /\ LET p == Complete(pending[s], "write") IN
       IF ec = "err"
       THEN Reconnect(s, Issue(p, "read"))
       ELSE /\ IssueOnStream(s, p, "read")
            /\ UNCHANGED <<reconnect_attempts_, ws_, nTimer, sinceWs>>
    /\ last' = [last EXCEPT ![s] = "write_" \o ec]
    /\ UNCHANGED <<running_, started, stopped, buffer_, allFail, nResolve, crashed>>
    /\ UNCHANGED <<readVars, bcastVars, connVars>>
    /\ UNCHANGED envVars
OnSubscribeWrite(s, ec) ==
    /\ ~crashed
    /\ pending[s]["write"] > 0
    /\ LET p == Complete(pending[s], "write") IN
       IF ec = "err"
       THEN Reconnect(s, p)
       ELSE /\ IssueOnStream(s, p, "read")
            /\ UNCHANGED <<reconnect_attempts_, ws_, nTimer, sinceWs>>
    /\ last' = [last EXCEPT ![s] = "write_" \o ec]
    /\ UNCHANGED <<running_, started, stopped, buffer_, allFail, nResolve, crashed>>
    /\ UNCHANGED <<readVars, bcastVars, connVars>>
    /\ UNCHANGED envVars

\* The tail of on_read: if (running_) read().
ContinueReading(s, p) ==
    IF running_[s]
    THEN IssueOnStream(s, p, "read")
    ELSE pending' = [pending EXCEPT ![s] = p] /\ UNCHANGED ub

\* buffer_ after an async_read that completed with the error ec, having held
\* b before: the error came before any byte of the frame ("err"), or after a
\* part of the frame had been put into buffer_ (Partial).  on_read and
\* reconnect() leave buffer_ as the failed read left it.
AfterFailedRead(b, ec) == IF ec = Partial THEN Stale ELSE b

\* on_read: error -> reconnect(); a tick frame -> parse_message reaches the
\* callback, which enters broadcast_price; any other frame -> keep reading.
OnReadReadsFirst(s, ec, f) ==
    /\ ~crashed
    /\ pending[s]["read"] > 0
    /\ bpc[s] = None
    /\ LET p == Complete(pending[s], "read") IN
       IF ec # "ok"
       THEN /\ Reconnect(s, p)
            /\ buffer_' = [buffer_ EXCEPT ![s] = AfterFailedRead(@, ec)]
            /\ UNCHANGED readVars
       ELSE IF IsTick(f)
       THEN /\ nextU <= MaxUpdates
            /\ pending' = [pending EXCEPT ![s] = Issue(p, "read")]
            /\ bpc' = [bpc EXCEPT ![s] = "lock"]
            /\ cur' = [cur EXCEPT ![s] = nextU]
            /\ nextU' = nextU + 1
            /\ retBefore' = [retBefore EXCEPT ![nextU] = Returned]
            /\ UNCHANGED <<reconnect_attempts_, ws_, buffer_, ub, nTimer, sinceWs>>
       ELSE /\ ContinueReading(s, p)
            /\ UNCHANGED <<reconnect_attempts_, ws_, buffer_, nTimer, sinceWs, readVars>>
    /\ last' = [last EXCEPT ![s] = "read_" \o ec]
    /\ UNCHANGED <<running_, started, stopped, allFail, nResolve, crashed>>
    /\ UNCHANGED <<bcastVars, connVars>>
    /\ UNCHANGED envVars
OnReadDecodeFailureReconnects(s, ec, f) ==
    /\ ~crashed
    /\ pending[s]["read"] > 0
    /\ bpc[s] = None
    /\ LET p == Complete(pending[s], "read") IN
       IF ec # "ok" \/ ~IsTick(f)
       THEN /\ Reconnect(s, p)
            /\ buffer_' = [buffer_ EXCEPT ![s] = AfterFailedRead(@, ec)]
            /\ UNCHANGED readVars
       ELSE /\ nextU <= MaxUpdates
            /\ pending' = [pending EXCEPT ![s] = p]
            /\ bpc' = [bpc EXCEPT ![s] = "lock"]
            /\ cur' = [cur EXCEPT ![s] = nextU]
            /\ nextU' = nextU + 1
            /\ retBefore' = [retBefore EXCEPT ![nextU] = Returned]
            /\ UNCHANGED <<reconnect_attempts_, ws_, buffer_, ub, nTimer, sinceWs>>
    /\ last' = [last EXCEPT ![s] = "read_" \o ec]
    /\ UNCHANGED <<running_, started, stopped, allFail, nResolve, crashed>>
    /\ UNCHANGED <<bcastVars, connVars>>
    /\ UNCHANGED envVars
OnRead(s, ec, f) ==
    /\ ~crashed
    /\ pending[s]["read"] > 0
    /\ bpc[s] = None
    /\ LET p == Complete(pending[s], "read") IN
       IF ec # "ok"
       THEN /\ Reconnect(s, p)
            /\ buffer_' = [buffer_ EXCEPT ![s] = AfterFailedRead(@, ec)]
            /\ UNCHANGED readVars
       ELSE IF IsTick(f)
       THEN /\ nextU <= MaxUpdates
            /\ pending' = [pending EXCEPT ![s] = p]
            /\ bpc' = [bpc EXCEPT ![s] = "lock"]
            /\ cur' = [cur EXCEPT ![s] = nextU]
            /\ nextU' = nextU + 1
            /\ retBefore' = [retBefore EXCEPT ![nextU] = Returned]
            /\ UNCHANGED <<reconnect_attempts_, ws_, buffer_, ub, nTimer, sinceWs>>
       ELSE /\ ContinueReading(s, p)
            /\ UNCHANGED <<reconnect_attempts_, ws_, buffer_, nTimer, sinceWs, readVars>>
    /\ last' = [last EXCEPT ![s] = "read_" \o ec]
    /\ UNCHANGED <<running_, started, stopped, allFail, nResolve, crashed>>
    /\ UNCHANGED <<bcastVars, connVars>>
    /\ UNCHANGED envVars

\* Completion handler of the backoff timer: if (running_) resolve().
OnTimer(s) ==
    /\ ~crashed
    /\ pending[s]["timer"] > 0
    /\ LET p == Complete(pending[s], "timer") IN
       IF running_[s]
       THEN /\ pending' = [pending EXCEPT ![s] = Issue(p, "resolve")]
            /\ CountResolve(s)
       ELSE /\ pending' = [pending EXCEPT ![s] = p]
            /\ UNCHANGED nResolve
    /\ last' = [last EXCEPT ![s] = "timer"]
    /\ UNCHANGED <<running_, reconnect_attempts_, ws_, started, stopped, buffer_, allFail,
                   nTimer, sinceWs, ub, crashed>>
    /\ UNCHANGED <<readVars, bcastVars, connVars>>
    /\ UNCHANGED envVars

\* Two operations at once on one stream, or a stream destroyed or closed
\* under a pending operation, is undefined: besides completing either way,
\* the process may die.
Crash(s) ==
    /\ ~crashed
    /\ ub[s]
    /\ crashed' = TRUE
    /\ UNCHANGED <<running_, reconnect_attempts_, ws_, pending, started, stopped, buffer_, last,
                   allFail, nResolve, nTimer, sinceWs, ub>>
    /\ UNCHANGED <<readVars, bcastVars, connVars>>
    /\ UNCHANGED envVars

----------------------------------------------------------------------------
(* PriceFeedServer *)

\* std::lock_guard on clients_mutex_ can be taken.
MutexIgnored == TRUE
MutexFree == clients_mutex_ = None

\* One send() of asio::write: chunk k of the line of update u on connection c.
Chunk(u, k) == <<u, k>>
Line(u) == [k \in 1..LineChunks |-> Chunk(u, k)]

\* The remove_if predicate's result for a write that has completed.
WriteFailedInverted(ec) == ec = "ok"
WriteFailed(ec) == ec # "ok"

\* The iteration of remove_if after the predicate returned for clients_[bIdx]:
\* an element that is not removed is moved to the result range.
AfterPredicateStopOnError(s, c, ec) ==
    /\ bKept' = [bKept EXCEPT ![s] = IF WriteFailed(ec) THEN @ ELSE Append(@, c)]
    /\ bIdx' = [bIdx EXCEPT ![s] = IF WriteFailed(ec) THEN Len(clients_) + 1 ELSE @ + 1]
    /\ bPart' = [bPart EXCEPT ![s] = 1]
AfterPredicate(s, c, ec) ==
    /\ bKept' = [bKept EXCEPT ![s] = IF WriteFailed(ec) THEN @ ELSE Append(@, c)]
    /\ bIdx' = [bIdx EXCEPT ![s] = @ + 1]
    /\ bPart' = [bPart EXCEPT ![s] = 1]

\* PriceFeedServer::start(): accept().
ServerStart ==
    /\ ~crashed
    /\ accPc = None
    /\ accPc' = "accept"
    /\ UNCHANGED <<nextConn, peer, sent, unread, joinAt>>
    /\ UNCHANGED <<sessVars, readVars, bcastVars>>
    /\ UNCHANGED envVars

\* Completion handler of async_accept up to the lock of handle_accept; on an
\* error it logs and calls accept() again.
OnAccept(ec) ==
    /\ ~crashed
    /\ accPc = "accept"
    /\ IF ec = "ok"
       THEN /\ nextConn <= MaxConns
            /\ peer' = [peer EXCEPT ![nextConn] = "open"]
            /\ nextConn' = nextConn + 1
            /\ accPc' = "lock"
       ELSE UNCHANGED <<accPc, nextConn, peer>>
    /\ accLast' = ec
    /\ UNCHANGED <<sent, unread, joinAt>>
    /\ UNCHANGED <<sessVars, readVars, bcastVars>>
    /\ UNCHANGED <<running, mainPc, exitCode>>
    /\ UNCHANGED parseVars

\* handle_accept: the lock_guard is taken.
HandleAcceptLockNoWait ==
    /\ ~crashed
    /\ accPc = "lock"
    /\ clients_mutex_' = Acceptor
    /\ accPc' = "insert"
    /\ UNCHANGED <<clients_, bIdx, bPart, bKept, acqOrder, failedIn>>
    /\ UNCHANGED <<nextConn, peer, sent, unread, joinAt>>
    /\ UNCHANGED <<sessVars, readVars>>
    /\ UNCHANGED envVars
HandleAcceptLock ==
    /\ ~crashed
    /\ accPc = "lock"
    /\ MutexFree
    /\ clients_mutex_' = Acceptor
    /\ accPc' = "insert"
    /\ UNCHANGED <<clients_, bIdx, bPart, bKept, acqOrder, failedIn>>
    /\ UNCHANGED <<nextConn, peer, sent, unread, joinAt>>
    /\ UNCHANGED <<sessVars, readVars>>
    /\ UNCHANGED envVars

\* handle_accept: push_back, unlock; then the handler calls accept() again.
HandleAcceptInsertReplays ==
    /\ ~crashed
    /\ accPc = "insert"
    /\ clients_' = Append(clients_, nextConn - 1)
    /\ joinAt' = [joinAt EXCEPT ![nextConn - 1] = Len(acqOrder)]
    /\ sent' = [sent EXCEPT ![nextConn - 1] =
                   IF acqOrder = <<>> THEN @ ELSE Line(acqOrder[Len(acqOrder)])]
    /\ clients_mutex_' = None
    /\ accPc' = "accept"
    /\ UNCHANGED <<bIdx, bPart, bKept, acqOrder, failedIn>>
    /\ UNCHANGED <<nextConn, peer, unread>>
    /\ UNCHANGED <<sessVars, readVars>>
    /\ UNCHANGED envVars
HandleAcceptInsert ==
    /\ ~crashed
    /\ accPc = "insert"
    /\ clients_' = Append(clients_, nextConn - 1)
    /\ joinAt' = [joinAt EXCEPT ![nextConn - 1] = Len(acqOrder)]
    /\ clients_mutex_' = None
    /\ accPc' = "accept"
    /\ UNCHANGED <<bIdx, bPart, bKept, acqOrder, failedIn>>
    /\ UNCHANGED <<nextConn, peer, sent, unread>>
    /\ UNCHANGED <<sessVars, readVars>>
    /\ UNCHANGED envVars

\* broadcast_price: json_msg is built, then the lock_guard is taken and
\* remove_if starts at clients_.begin().
BroadcastLock(s) ==
    /\ ~crashed
    /\ bpc[s] = "lock"
    /\ MutexFree
    /\ clients_mutex_' = s
    /\ bpc' = [bpc EXCEPT ![s] = "iter"]
    /\ bIdx' = [bIdx EXCEPT ![s] = 1]
    /\ bPart' = [bPart EXCEPT ![s] = 1]
    /\ bKept' = [bKept EXCEPT ![s] = <<>>]
    /\ acqOrder' = Append(acqOrder, cur[s])
    /\ UNCHANGED <<clients_, failedIn>>
    /\ UNCHANGED <<cur, nextU, retBefore>>
    /\ UNCHANGED <<sessVars, connVars>>
    /\ UNCHANGED envVars

\* One send() of the blocking asio::write to clients_[bIdx]: it waits for room
\* in the socket buffer; after the last chunk the predicate returns false.
BroadcastSendSome(s) ==
    /\ ~crashed
    /\ bpc[s] = "iter"
    /\ bIdx[s] <= Len(clients_)
    /\ LET c == clients_[bIdx[s]] IN
       /\ \/ peer[c] = "open" /\ unread[c] < BufCap
          \/ peer[c] = "gone"
       /\ sent' = [sent EXCEPT ![c] = Append(@, Chunk(cur[s], bPart[s]))]
       /\ unread' = [unread EXCEPT ![c] = IF peer[c] = "open" THEN @ + 1 ELSE @]
       /\ AfterPredicate(s, c, "ok")
    /\ UNCHANGED <<clients_, clients_mutex_, acqOrder, failedIn>>
    /\ UNCHANGED <<accPc, nextConn, peer, joinAt>>
    /\ UNCHANGED <<sessVars, readVars>>
    /\ UNCHANGED envVars
BroadcastSend(s) ==
    /\ ~crashed
    /\ bpc[s] = "iter"
    /\ bIdx[s] <= Len(clients_)
    /\ LET c == clients_[bIdx[s]] IN
       /\ \/ peer[c] = "open" /\ unread[c] < BufCap
          \/ peer[c] = "gone"
       /\ sent' = [sent EXCEPT ![c] = Append(@, Chunk(cur[s], bPart[s]))]
       /\ unread' = [unread EXCEPT ![c] = IF peer[c] = "open" THEN @ + 1 ELSE @]
       /\ IF bPart[s] = LineChunks
          THEN AfterPredicate(s, c, "ok")
          ELSE /\ bPart' = [bPart EXCEPT ![s] = @ + 1]
               /\ UNCHANGED <<bIdx, bKept>>
    /\ UNCHANGED <<clients_, clients_mutex_, acqOrder, failedIn>>
    /\ UNCHANGED <<accPc, nextConn, peer, joinAt>>
    /\ UNCHANGED <<sessVars, readVars>>
    /\ UNCHANGED envVars

\* asio::write to clients_[bIdx] returns an error: the predicate returns true.
BroadcastSendError(s) ==
    /\ ~crashed
    /\ bpc[s] = "iter"
    /\ bIdx[s] <= Len(clients_)
    /\ LET c == clients_[bIdx[s]] IN
       /\ peer[c] = "gone"
       /\ failedIn' = [failedIn EXCEPT ![c] = cur[s]]
       /\ AfterPredicate(s, c, "err")
    /\ UNCHANGED <<clients_, clients_mutex_, acqOrder>>
    /\ UNCHANGED <<sessVars, readVars, connVars>>
    /\ UNCHANGED envVars

\* remove_if reached clients_.end(): erase, unlock, return to on_read, which
\* goes on with if (running_) read().
BroadcastReturn(s) ==
    /\ ~crashed
    /\ bpc[s] = "iter"
    /\ bIdx[s] > Len(clients_)
    /\ clients_' = bKept[s]
    /\ clients_mutex_' = None
    /\ bpc' = [bpc EXCEPT ![s] = None]
    /\ bIdx' = [bIdx EXCEPT ![s] = 0]
    /\ bPart' = [bPart EXCEPT ![s] = 0]
    /\ bKept' = [bKept EXCEPT ![s] = <<>>]
    /\ ContinueReading(s, pending[s])
    /\ cur' = [cur EXCEPT ![s] = 0]
    /\ UNCHANGED <<acqOrder, failedIn>>
    /\ UNCHANGED <<nextU, retBefore>>
    /\ UNCHANGED <<running_, reconnect_attempts_, ws_, started, stopped, buffer_, last,
                   allFail, nResolve, nTimer, sinceWs, crashed>>
    /\ UNCHANGED connVars
    /\ UNCHANGED envVars

\* The consumer process takes a chunk out of its socket.
ConsumerRead(c) ==
    /\ peer[c] = "open"
    /\ unread[c] > 0
    /\ unread' = [unread EXCEPT ![c] = @ - 1]
    /\ UNCHANGED <<accPc, nextConn, peer, sent, joinAt>>
    /\ UNCHANGED <<sessVars, readVars, bcastVars>>
    /\ UNCHANGED envVars

\* The consumer process closes its end or dies.
ConsumerClose(c) ==
    /\ peer[c] = "open"
    /\ peer' = [peer EXCEPT ![c] = "gone"]
    /\ unread' = [unread EXCEPT ![c] = 0]
    /\ UNCHANGED <<accPc, nextConn, sent, joinAt>>
    /\ UNCHANGED <<sessVars, readVars, bcastVars>>
    /\ UNCHANGED envVars

----------------------------------------------------------------------------
(* Specifications *)

\* The steps of session s: every completion either way.
NextOf(s) ==
    \/ Start(s)
    \/ Stop(s)
    \/ \E ec \in ErrorCodes : OnResolve(s, ec)
    \/ \E ec \in ErrorCodes, sni \in BOOLEAN : OnConnect(s, ec, sni)
    \/ \E ec \in ErrorCodes : OnSslHandshake(s, ec)
    \/ \E ec \in ErrorCodes : OnWsHandshake(s, ec)
    \/ \E ec \in ErrorCodes : OnSubscribeWrite(s, ec)
    \/ \E ec \in ErrorCodes, f \in Frames : OnRead(s, ec, f)
    \/ OnTimer(s)
    \/ BroadcastLock(s)
    \/ BroadcastReturn(s)
    \/ Crash(s)

\* The sessions alone, no consumer connected.
NextSession == \E s \in Sessions : NextOf(s)

SpecSession == Init /\ [][NextSession]_vars

\* The sessions on connections that may also break in the middle of a frame.
NextBuffer ==
    \/ NextSession
    \/ \E s \in Sessions, f \in Frames : OnRead(s, Partial, f)

SpecBuffer == Init /\ [][NextBuffer]_vars

\* One session alone, whose owner calls start() a second time.
NextRestart == NextOf("Kraken") \/ StartAgain("Kraken")

SpecRestart == Init /\ [][NextRestart]_vars

\* The state in which main() has started the server and the sessions and
\* every session has reached its read loop.
Streaming ==
    /\ running_ = [s \in Sessions |-> TRUE]
    /\ reconnect_attempts_ = [s \in Sessions |-> 0]
    /\ ws_ = [s \in Sessions |-> "open"]
    /\ buffer_ = [s \in Sessions |-> Empty]
    /\ pending = [s \in Sessions |-> Issue(NoOps, "read")]
    /\ started = [s \in Sessions |-> 1]
    /\ stopped = [s \in Sessions |-> FALSE]
    /\ last = [s \in Sessions |-> IF SubscribeMsgEmpty(s) THEN "ws_ok" ELSE "write_ok"]
    /\ allFail = [s \in Sessions |-> FALSE]
    /\ nResolve = [s \in Sessions |-> 0]
    /\ nTimer = [s \in Sessions |-> 0]
    /\ sinceWs = [s \in Sessions |-> 0]
    /\ ub = [s \in Sessions |-> FALSE]
    /\ crashed = FALSE
    /\ bpc = [s \in Sessions |-> None]
    /\ cur = [s \in Sessions |-> 0]
    /\ nextU = 1
    /\ retBefore = [u \in Updates |-> {}]
    /\ clients_ = <<>>
    /\ clients_mutex_ = None
    /\ bIdx = [s \in Sessions |-> 0]
    /\ bPart = [s \in Sessions |-> 0]
    /\ bKept = [s \in Sessions |-> <<>>]
    /\ acqOrder = <<>>
    /\ failedIn = [c \in Conns |-> 0]
    /\ joinAt = [c \in Conns |-> 0]
    /\ accPc = "accept"
    /\ nextConn = 1
    /\ peer = [c \in Conns |-> None]
    /\ sent = [c \in Conns |-> <<>>]
    /\ unread = [c \in Conns |-> 0]

InitStreaming == Streaming /\ MainRunning /\ ParserIdle

\* The fan-out with its consumers, fed by sessions in their read loops.  A
\* failed accept leaves clients_ and the consumers as they are; it is a step
\* of SpecShutdown below.
NextFanout ==
    \/ \E s \in Sessions :
        \/ \E f \in Frames : OnRead(s, "ok", f)
        \/ BroadcastLock(s)
        \/ BroadcastSend(s)
        \/ BroadcastSendError(s)
        \/ BroadcastReturn(s)
    \/ OnAccept("ok")
    \/ HandleAcceptLock
    \/ HandleAcceptInsert
    \/ \E c \in Conns : ConsumerRead(c) \/ ConsumerClose(c)

SpecFanout == InitStreaming /\ [][NextFanout]_vars

\* The same, with the steps of the program taken when they stay possible: a
\* ready handler is run and a blocking call that can return does return.
\* Nothing is assumed of the consumers.
FairFanout ==
    /\ \A s \in Sessions :
          /\ WF_vars(BroadcastLock(s))
          /\ WF_vars(BroadcastSend(s))
          /\ WF_vars(BroadcastReturn(s))
    /\ WF_vars(HandleAcceptLock)
    /\ WF_vars(HandleAcceptInsert)

SpecFanoutFair == SpecFanout /\ FairFanout

\* The whole program from construction.
Next == NextBuffer \/ NextFanout \/ ServerStart \/ OnAccept("err")

SpecProgram == Init /\ [][Next]_vars

\* InitStreaming is a state of the program.
StreamingNotReached == ~InitStreaming

----------------------------------------------------------------------------
(* main(): the process from the run loop to its exit *)

\* The order of main()'s clients vector.
ClientOrder == <<"Binance", "Kraken">>

\* The io_context hands completions to handlers until ioc.stop().
Dispatching == mainPc \in {"run", "stop"}

\* A read of a session completes while the io_context runs; the venues are
\* taken not to fail, so a read fails only on a stream that stop() has closed.
DispatchRead(s, ec, f) ==
    /\ Dispatching
    /\ ec = "err" => stopped[s]
    /\ OnRead(s, ec, f)

DispatchAccept(ec) == Dispatching /\ OnAccept(ec)

\* An accept completes without error for a connection the peer has already
\* reset: socket->remote_endpoint() throws boost::system::system_error out
\* of the handler before accept() is called again, the exception leaves
\* ioc.run() and ends the process.
OnAcceptThrow ==
    /\ ~crashed
    /\ Dispatching
    /\ accPc = "accept"
    /\ nextConn <= MaxConns
    /\ peer' = [peer EXCEPT ![nextConn] = "gone"]
    /\ nextConn' = nextConn + 1
    /\ accPc' = None
    /\ accLast' = "ok"
    /\ crashed' = TRUE
    /\ UNCHANGED <<running_, reconnect_attempts_, ws_, pending, started, stopped, buffer_, last,
                   allFail, nResolve, nTimer, sinceWs, ub>>
    /\ UNCHANGED <<sent, unread, joinAt>>
    /\ UNCHANGED <<readVars, bcastVars>>
    /\ UNCHANGED <<running, mainPc, exitCode>>
    /\ UNCHANGED parseVars

\* signal_handler on SIGINT or SIGTERM: running = false.
Signal ==
    /\ ~crashed
    /\ running /\ mainPc = "run"
    /\ running' = FALSE
    /\ UNCHANGED <<mainPc, exitCode, accLast>>
    /\ UNCHANGED <<sessVars, readVars, bcastVars, connVars, parseVars>>

\* while (running) ioc.run_for(100ms): the loop test fails.
MainLoopExit ==
    /\ ~crashed
    /\ mainPc = "run" /\ ~running
    /\ mainPc' = "stop"
    /\ UNCHANGED <<running, exitCode, accLast>>
    /\ UNCHANGED <<sessVars, readVars, bcastVars, connVars, parseVars>>

\* for (auto& client : clients) client->stop();
MainStop(s) ==
    /\ mainPc = "stop"
    /\ \E i \in 1..Len(ClientOrder) :
          /\ ClientOrder[i] = s
          /\ \A j \in 1..i - 1 : stopped[ClientOrder[j]]
    /\ Stop(s)

\* ioc.stop()
MainIocStop ==
    /\ ~crashed
    /\ mainPc = "stop"
    /\ \A s \in Sessions : stopped[s]
    /\ mainPc' = "join"
    /\ UNCHANGED <<running, exitCode, accLast>>
    /\ UNCHANGED <<sessVars, readVars, bcastVars, connVars, parseVars>>

\* thread.join() for every worker, then return 0: a worker leaves ioc.run()
\* when the handler it is running has returned.
MainJoin ==
    /\ ~crashed
    /\ mainPc = "join"
    /\ \A s \in Sessions : bpc[s] = None
    /\ accPc \notin {"lock", "insert"}
    /\ mainPc' = "done"
    /\ exitCode' = 0
    /\ UNCHANGED <<running, accLast>>
    /\ UNCHANGED <<sessVars, readVars, bcastVars, connVars, parseVars>>

NextShutdown ==
    \/ \E s \in Sessions :
        \/ \E ec \in ErrorCodes, f \in Frames : DispatchRead(s, ec, f)
        \/ BroadcastLock(s)
        \/ BroadcastSend(s)
        \/ BroadcastSendError(s)
        \/ BroadcastReturn(s)
        \/ MainStop(s)
    \/ \E ec \in ErrorCodes : DispatchAccept(ec)
    \/ OnAcceptThrow
    \/ HandleAcceptLock
    \/ HandleAcceptInsert
    \/ \E c \in Conns : ConsumerRead(c) \/ ConsumerClose(c)
    \/ Signal
    \/ MainLoopExit
    \/ MainIocStop
    \/ MainJoin

\* The streaming process with its consumers, up to its exit.
SpecShutdown == InitStreaming /\ [][NextShutdown]_vars

\* The main thread is scheduled, and so are the workers (FairFanout); nothing
\* is assumed of signals, venues or consumers.
FairMain ==
    /\ WF_vars(MainLoopExit)
    /\ WF_vars(\E s \in Sessions : MainStop(s))
    /\ WF_vars(MainIocStop)
    /\ WF_vars(MainJoin)

SpecShutdownFair == SpecShutdown /\ FairFanout /\ FairMain

----------------------------------------------------------------------------
(* Exchange parsers *)

Venues == {"Binance", "Kraken", "Coinbase", "Bybit", "OKX"}

\* The keys of pair_mapping_, in the order a std::map iterates them.
CanonicalPairs == <<"BTC/USDT", "ETH/USDT", "SOL/USDT", "XRP/USDT">>
Canonical == Range(CanonicalPairs)

Native4(btc, eth, sol, xrp) ==
    [c \in Canonical |-> CASE c = "BTC/USDT" -> btc
                          [] c = "ETH/USDT" -> eth
                          [] c = "SOL/USDT" -> sol
                          [] OTHER -> xrp]

\* pair_mapping_ as the constructor of venue V fills it.
pair_mapping_Colliding(V) ==
    CASE V = "Binance" -> Native4("btcusdt", "ethusdt", "solusdt", "xrpusdt")
      [] V = "Kraken" -> Native4("ETH/USDT", "ETH/USDT", "SOL/USDT", "XRP/USDT")
      [] V = "Coinbase" -> Native4("BTC-USDT", "ETH-USDT", "SOL-USDT", "XRP-USDT")
      [] V = "Bybit" -> Native4("BTCUSDT", "ETHUSDT", "SOLUSDT", "XRPUSDT")
      [] OTHER -> Native4("BTC-USDT", "ETH-USDT", "SOL-USDT", "XRP-USDT")
pair_mapping_(V) ==
    CASE V = "Binance" -> Native4("btcusdt", "ethusdt", "solusdt", "xrpusdt")
      [] V = "Kraken" -> Native4("XBT/USDT", "ETH/USDT", "SOL/USDT", "XRP/USDT")
      [] V = "Coinbase" -> Native4("BTC-USDT", "ETH-USDT", "SOL-USDT", "XRP-USDT")
      [] V = "Bybit" -> Native4("BTCUSDT", "ETHUSDT", "SOLUSDT", "XRPUSDT")
      [] OTHER -> Native4("BTC-USDT", "ETH-USDT", "SOL-USDT", "XRP-USDT")

\* m[k] = v on a std::map: insert or overwrite.
Put(m, k, v) == [x \in DOMAIN m \cup {k} |-> IF x = k THEN v ELSE m[x]]

\* The constructor's loop: for each (normalized, native) of pair_mapping_ in
\* key order, reverse_mapping_[native] = normalized.
RECURSIVE BuildReverse(_, _, _)
BuildReverse(fwd, keys, acc) ==
    IF keys = <<>> THEN acc
    ELSE BuildReverse(fwd, Tail(keys), Put(acc, fwd[Head(keys)], Head(keys)))

reverse_mapping_(V) == BuildReverse(pair_mapping_(V), CanonicalPairs, <<>>)

\* Symbols a frame may carry: the venues' native ones and some that no
\* venue knows.
Symbols == {"btcusdt", "ethusdt", "solusdt", "xrpusdt",
            "BTCUSDT", "ETHUSDT", "SOLUSDT", "XRPUSDT",
            "XBT/USDT", "ETH/USDT", "SOL/USDT", "XRP/USDT",
            "BTC-USDT", "ETH-USDT", "SOL-USDT", "XRP-USDT",
            "BTC/USDT", "DOGEUSDT", ""}

\* std::transform(..., ::tolower)
ToLower(x) ==
    CASE x = "BTCUSDT" -> "btcusdt" [] x = "ETHUSDT" -> "ethusdt"
      [] x = "SOLUSDT" -> "solusdt" [] x = "XRPUSDT" -> "xrpusdt"
      [] x = "XBT/USDT" -> "xbt/usdt" [] x = "ETH/USDT" -> "eth/usdt"
      [] x = "SOL/USDT" -> "sol/usdt" [] x = "XRP/USDT" -> "xrp/usdt"
      [] x = "BTC-USDT" -> "btc-usdt" [] x = "ETH-USDT" -> "eth-usdt"
      [] x = "SOL-USDT" -> "sol-usdt" [] x = "XRP-USDT" -> "xrp-usdt"
      [] x = "BTC/USDT" -> "btc/usdt" [] x = "DOGEUSDT" -> "dogeusdt"
      [] OTHER -> x

\* Price strings: one that std::stod converts, one it rejects, the empty one.
Prices == {"50000.00", "abc", ""}
\* std::stod(v) returns (otherwise it throws std::invalid_argument)
StodConverts(v) == v = "50000.00"

get_json_string(F, key) == IF F.kv[key] = Absent THEN "" ELSE F.kv[key]
has_key(F, key) == F.kv[key] # Absent
is_array(F) == F.top = "array"
get_nested_value(F, key) == IF F.kv[key] = Absent THEN "" ELSE F.kv[key]
\* topic.find("tickers.") == 0
StartsWithTickers(topic) == \E x \in Symbols : topic = "tickers." \o x

\* Outcomes of the body of a parse_message: return without a record, an
\* exception thrown, notify_price_update called once with the pair.
NoRecord == [emit |-> <<>>, exc |-> FALSE]
Thrown == [emit |-> <<>>, exc |-> TRUE]
Notify(pair) == [emit |-> <<pair>>, exc |-> FALSE]

\* update.bid = std::stod(bid); update.ask = std::stod(ask); notify.
StodAndNotify(pair, bid, ask) ==
    IF StodConverts(bid) /\ StodConverts(ask) THEN Notify(pair) ELSE Thrown

\* The try blocks of the five parse_message functions.
BinanceBody(F) ==
    IF ~has_key(F, "s") \/ ~has_key(F, "b") \/ ~has_key(F, "a") THEN NoRecord
    ELSE LET symbol == ToLower(get_json_string(F, "s"))
             rev == reverse_mapping_("Binance") IN
         IF symbol \notin DOMAIN rev THEN NoRecord
         ELSE StodAndNotify(rev[symbol], get_json_string(F, "b"), get_json_string(F, "a"))

KrakenBody(F) ==
    IF ~is_array(F) THEN NoRecord
    ELSE IF ~F.ticker THEN NoRecord
    ELSE LET kraken_pair == F.last
             rev == reverse_mapping_("Kraken") IN
         IF kraken_pair \notin DOMAIN rev THEN NoRecord
         ELSE StodAndNotify(rev[kraken_pair], get_nested_value(F, "b"), get_nested_value(F, "a"))

CoinbaseBody(F) ==
    IF get_json_string(F, "type") # "ticker" THEN NoRecord
    ELSE IF ~has_key(F, "product_id") \/ ~has_key(F, "best_bid") \/ ~has_key(F, "best_ask")
    THEN NoRecord
    ELSE LET product_id == get_json_string(F, "product_id")
             rev == reverse_mapping_("Coinbase") IN
         IF product_id \notin DOMAIN rev THEN NoRecord
         ELSE StodAndNotify(rev[product_id], get_json_string(F, "best_bid"),
                            get_json_string(F, "best_ask"))

BybitBody(F) ==
    IF ~has_key(F, "topic") \/ ~has_key(F, "data") THEN NoRecord
    ELSE IF ~StartsWithTickers(get_json_string(F, "topic")) THEN NoRecord
    ELSE LET symbol == get_json_string(F, "symbol")
             rev == reverse_mapping_("Bybit")
             bid_str == get_json_string(F, "bid1Price")
             ask_str == get_json_string(F, "ask1Price") IN
         IF symbol = "" THEN NoRecord
         ELSE IF symbol \notin DOMAIN rev THEN NoRecord
         ELSE IF bid_str = "" \/ ask_str = "" THEN NoRecord
         ELSE StodAndNotify(rev[symbol], bid_str, ask_str)

OKXBody(F) ==
    IF ~has_key(F, "data") THEN NoRecord
    ELSE LET inst_id == get_json_string(F, "instId")
             rev == reverse_mapping_("OKX")
             bid_str == get_json_string(F, "bidPx")
             ask_str == get_json_string(F, "askPx") IN
         IF inst_id = "" THEN NoRecord
         ELSE IF inst_id \notin DOMAIN rev THEN NoRecord
         ELSE IF bid_str = "" \/ ask_str = "" THEN NoRecord
         ELSE StodAndNotify(rev[inst_id], bid_str, ask_str)

\* catch (const std::exception&) { } around the body.
CatchNothing(r) == r
Catch(r) == IF r.exc THEN NoRecord ELSE r

parse_message(V, F) ==
    CASE V = "Binance" -> Catch(BinanceBody(F))
      [] V = "Kraken" -> Catch(KrakenBody(F))
      [] V = "Coinbase" -> Catch(CoinbaseBody(F))
      [] V = "Bybit" -> Catch(BybitBody(F))
      [] OTHER -> Catch(OKXBody(F))

\* A frame written in the format of venue fmt with the given symbol and
\* prices (Absent: the field is left out); marker = FALSE makes it a frame of
\* another channel of that venue.
FrameOf(fmt, sym, bid, ask, marker) ==
    [top |-> IF fmt = "Kraken" THEN "array" ELSE "object",
     ticker |-> marker /\ fmt \in {"Kraken", "Coinbase"},
     last |-> IF fmt = "Kraken"
              THEN (IF sym = Absent THEN "ticker" ELSE sym)
              ELSE (IF ask = Absent THEN "" ELSE ask),
     kv |-> [k \in FrameKeys |->
               CASE fmt = "Binance" /\ k = "s" -> sym
                 [] fmt \in {"Binance", "Kraken"} /\ k = "b" -> bid
                 [] fmt \in {"Binance", "Kraken"} /\ k = "a" -> ask
                 [] fmt = "Coinbase" /\ k = "type" ->
                        IF marker THEN "ticker" ELSE "subscriptions"
                 [] fmt = "Coinbase" /\ k = "product_id" -> sym
                 [] fmt = "Coinbase" /\ k = "best_bid" -> bid
                 [] fmt = "Coinbase" /\ k = "best_ask" -> ask
                 [] fmt = "Bybit" /\ k = "topic" ->
                        (IF marker THEN "tickers." ELSE "orderbook.50.")
                            \o (IF sym = Absent THEN "" ELSE sym)
                 [] fmt = "Bybit" /\ k = "data" -> ""
                 [] fmt = "Bybit" /\ k = "symbol" -> sym
                 [] fmt = "Bybit" /\ k = "bid1Price" -> bid
                 [] fmt = "Bybit" /\ k = "ask1Price" -> ask
                 [] fmt = "OKX" /\ k = "data" -> IF marker THEN "" ELSE Absent
                 [] fmt = "OKX" /\ k = "instId" -> sym
                 [] fmt = "OKX" /\ k = "bidPx" -> bid
                 [] fmt = "OKX" /\ k = "askPx" -> ask
                 [] OTHER -> Absent]]

ParseFrames ==
    {FrameOf(fmt, sym, bid, ask, marker) :
        fmt \in Venues, sym \in Symbols \cup {Absent},
        bid \in Prices \cup {Absent}, ask \in Prices \cup {Absent},
        marker \in BOOLEAN}

\* on_read calls the parse_message of its venue with the frame it has read.
ParseMessage ==
    /\ ppc = "call"
    /\ LET r == parse_message(venue, frame) IN
       /\ emitted' = r.emit
       /\ raised' = r.exc
    /\ ppc' = "done"
    /\ UNCHANGED <<venue, frame>>
    /\ UNCHANGED <<sessVars, readVars, bcastVars, connVars, mainVars>>

\* Every venue's parser, about to be called with any of the frames.
InitParse ==
    /\ Streaming /\ MainRunning
    /\ venue \in Venues
    /\ frame \in ParseFrames
    /\ ppc = "call"
    /\ emitted = <<>>
    /\ raised = FALSE

SpecParse == InitParse /\ [][ParseMessage]_vars

----------------------------------------------------------------------------
(* Properties *)

Pending(s) == pending[s]["resolve"] + pending[s]["connect"] + pending[s]["ssl_handshake"]
              + pending[s]["ws_handshake"] + pending[s]["write"] + pending[s]["read"]
              + pending[s]["timer"]

\* C1: while every resolve of a running session started once has failed, each
\* reconnection attempt is one timer followed by one resolve, there are never
\* more than 10 timers and 11 resolves, and when the running session has
\* nothing pending any more it has issued exactly the initial resolve and 10
\* timers with 10 further resolves.
ResolveFailureCap ==
    \A s \in Sessions :
        allFail[s] /\ started[s] = 1 /\ ~stopped[s] =>
            /\ nTimer[s] <= 10 /\ nResolve[s] <= 11
            /\ nTimer[s] = reconnect_attempts_[s]
            /\ nResolve[s] = nTimer[s] + (IF pending[s]["timer"] > 0 THEN 0 ELSE 1)
            /\ Pending(s) <= 1 /\ pending[s]["resolve"] + pending[s]["timer"] = Pending(s)
            /\ (Idle(s) => nTimer[s] = 10 /\ nResolve[s] = 11)

ResolveFailureCapReached ==
    \E s \in Sessions :
        /\ allFail[s] /\ ~stopped[s] /\ Idle(s)
        /\ last[s] = "resolve_err"
        /\ nTimer[s] = 10 /\ nResolve[s] = 11

\* C2: a successful WebSocket handshake leaves reconnect_attempts_ at 0, and
\* a subscribe-write error or read error on a running session starts the
\* backoff timer with reconnect_attempts_ equal to 1.
CounterReset ==
    [][\A s \in Sessions :
          /\ OnWsHandshake(s, "ok") => reconnect_attempts_'[s] = 0
          /\ running_[s] /\ (OnSubscribeWrite(s, "err") \/ \E f \in Frames : OnRead(s, "err", f))
               => reconnect_attempts_'[s] = 1 /\ pending'[s]["timer"] = 1]_vars

CounterResetReached ==
    \E s \in Sessions :
        /\ running_[s] /\ last[s] = "read_err"
        /\ reconnect_attempts_[s] = 1 /\ pending[s]["timer"] = 1

\* C3: once stop() has been called on a session, no step starts a backoff
\* timer for it and no step issues a resolve for it, the firing of a timer
\* that was pending at the stop included.
NoReconnectAfterStop ==
    [][\A s \in Sessions :
          stopped[s] =>
              /\ pending'[s]["timer"] <= pending[s]["timer"]
              /\ pending'[s]["resolve"] <= pending[s]["resolve"]]_vars

NoReconnectAfterStopReached ==
    \E s, t \in Sessions :
        /\ s # t
        /\ stopped[s] /\ last[s] = "timer" /\ Idle(s)
        /\ stopped[t] /\ last[t] = "read_err" /\ Idle(t)

\* C4: once stop() has been called on a session, no completion handler of
\* the session runs with a success code and no step issues a new operation
\* for it.
StopCancelsEverything ==
    [][\A s \in Sessions :
          stopped[s] =>
              /\ \A op \in Ops : pending'[s][op] <= pending[s][op]
              /\ ~ \/ OnResolve(s, "ok")
                   \/ OnConnect(s, "ok", TRUE)
                   \/ OnSslHandshake(s, "ok")
                   \/ OnWsHandshake(s, "ok")
                   \/ OnSubscribeWrite(s, "ok")
                   \/ \E f \in Frames : OnRead(s, "ok", f)]_vars

\* C5: a second start() on a started session changes nothing of the session:
\* no second resolve is issued and reconnect_attempts_ keeps its value.
StartIdempotent ==
    [][\A s \in Sessions :
          StartAgain(s) => UNCHANGED <<running_, reconnect_attempts_, pending>>]_vars

\* The line of update u stands in the stream q from index i on.
HasLineAt(q, u, i) ==
    /\ i >= 1 /\ i + LineChunks - 1 <= Len(q)
    /\ \A k \in 1..LineChunks : q[i + k - 1] = Chunk(u, k)
EndsWithLine(q, u) == HasLineAt(q, u, Len(q) - LineChunks + 1)
\* The place of update u in the order of mutex acquisitions.
Pos(u) == CHOOSE i \in 1..Len(acqOrder) : acqOrder[i] = u
\* broadcast_price(u) has called asio::write on connection c.
Attempted(u, c) == failedIn[c] = u \/ \E i \in 1..Len(sent[c]) : sent[c][i] = Chunk(u, 1)

\* C6: when broadcast_price returns, every consumer that was in clients_ when
\* the call took the mutex and is still in clients_ has been sent the whole
\* line of the update; a consumer that was not sent it is no longer in the set.
BroadcastDelivers ==
    [][\A s \in Sessions :
          BroadcastReturn(s) =>
              \A c \in Range(clients_) :
                  c \in Range(clients_') => EndsWithLine(sent[c], cur[s])]_vars

BroadcastDeliversReached ==
    \E c, d \in Conns, u \in Updates :
        /\ clients_mutex_ = None /\ u \in Returned
        /\ joinAt[c] < Pos(u) /\ joinAt[d] < Pos(u)
        /\ c \in Range(clients_) /\ EndsWithLine(sent[c], u)
        /\ d \notin Range(clients_) /\ failedIn[d] = u

\* C7: a consumer whose write failed is in clients_ only until the broadcast
\* in which it failed returns, no write is attempted to a consumer that has
\* failed before, and when a broadcast returns a write has been attempted to
\* every consumer that was in clients_ during it.
FailedConsumerRemoved ==
    /\ [](\A c \in Range(clients_) :
            failedIn[c] # 0 => \E s \in Sessions : bpc[s] = "iter" /\ cur[s] = failedIn[c])
    /\ [](\A s \in Sessions :
            bpc[s] = "iter" /\ bIdx[s] <= Len(clients_) => failedIn[clients_[bIdx[s]]] = 0)
    /\ [][\A s \in Sessions :
            BroadcastReturn(s) => \A c \in Range(clients_) : Attempted(cur[s], c)]_vars

FailedConsumerRemovedReached ==
    /\ Len(acqOrder) = 2 /\ Returned = Range(acqOrder) /\ clients_mutex_ = None
    /\ failedIn[1] = acqOrder[1] /\ joinAt[2] = 0
    /\ clients_ = <<2>>
    /\ HasLineAt(sent[2], acqOrder[1], 1)
    /\ HasLineAt(sent[2], acqOrder[2], LineChunks + 1)
    /\ ~Attempted(acqOrder[2], 1)

\* C8: when broadcast_price(u1) returned before broadcast_price(u2) was called
\* and both have returned, every consumer that was inserted before u1 took
\* the mutex and is still in clients_ has the whole line of u1 before the
\* whole line of u2 in its stream.
BroadcastOrder ==
    \A c \in Range(clients_), u1, u2 \in Returned :
        u1 \in retBefore[u2] /\ joinAt[c] < Pos(u1) =>
            \E i, j \in 1..Len(sent[c]) :
                i < j /\ HasLineAt(sent[c], u1, i) /\ HasLineAt(sent[c], u2, j)

BroadcastOrderReached ==
    \E a, b \in Conns, u1, u2 \in Returned :
        /\ a # b /\ {a, b} \subseteq Range(clients_)
        /\ u1 \in retBefore[u2]
        /\ joinAt[a] < Pos(u1) /\ joinAt[b] < Pos(u1)
        /\ HasLineAt(sent[a], u1, 1) /\ HasLineAt(sent[a], u2, LineChunks + 1)
        /\ HasLineAt(sent[b], u1, 1) /\ HasLineAt(sent[b], u2, LineChunks + 1)

\* C9: in every consumer's stream the chunks of a line stand together and in
\* order (only the last line may be incomplete), the lines stand in the order
\* in which their broadcasts took the mutex, and two consumers hold the
\* updates they both received in the same relative order.
WholeLines(q) ==
    \A i \in 1..Len(q) :
        /\ q[i][2] > 1 => i > 1 /\ q[i - 1] = Chunk(q[i][1], q[i][2] - 1)
        /\ q[i][2] < LineChunks /\ i < Len(q) => q[i + 1] = Chunk(q[i][1], q[i][2] + 1)
InAcquisitionOrder(q) ==
    \A i \in 1..Len(q) - 1 :
        q[i][1] # q[i + 1][1] =>
            \A j \in i + 1..Len(q) : Pos(q[i][1]) < Pos(q[j][1])
Seen(q) == {q[i][1] : i \in 1..Len(q)}
Before(q, u, v) ==
    \E i, j \in 1..Len(q) : i < j /\ q[i][1] = u /\ q[j][1] = v
MutexOrder ==
    /\ \A c \in Conns : WholeLines(sent[c]) /\ InAcquisitionOrder(sent[c])
    /\ \A c, d \in Conns :
          c # d =>
              \A u, v \in Seen(sent[c]) \cap Seen(sent[d]) :
                  u # v /\ Before(sent[c], u, v) => ~Before(sent[d], v, u)

MutexOrderReached ==
    \E s, t \in Sessions :
        /\ s # t
        /\ bpc[s] = "lock" /\ bpc[t] = "iter" /\ clients_mutex_ = t
        /\ cur[t] > cur[s]
        /\ Len(clients_) = 2 /\ bIdx[t] = 2 /\ bPart[t] > 1
        /\ HasLineAt(sent[clients_[1]], cur[t], 1)

\* C10: every call of broadcast_price returns and the calling session then
\* has its next read pending, whether or not the consumers read.
BroadcastReturns ==
    \A s \in Sessions : (bpc[s] # None) ~> (bpc[s] = None /\ pending[s]["read"] > 0)

\* The session has used up its reconnection attempts and has nothing pending.
Terminal(s) ==
    running_[s] /\ reconnect_attempts_[s] >= MAX_RECONNECT_ATTEMPTS /\ Idle(s)
SessionState(t) == <<running_[t], reconnect_attempts_[t], ws_[t], pending[t], bpc[t]>>
\* The handler that is due next for session t can run.
CanProceed(t) ==
    /\ pending[t]["resolve"] > 0 => ENABLED OnResolve(t, "ok")
    /\ pending[t]["timer"] > 0 => ENABLED OnTimer(t)
    /\ pending[t]["read"] > 0 /\ bpc[t] = None =>
          ENABLED OnRead(t, "ok", "other") /\ ENABLED OnRead(t, "err", "other")

\* C11: the step in which a session becomes terminal at the reconnection cap
\* changes nothing of any other session and does not end the process (main()
\* stays in its run loop), and while a session is terminal the pending
\* operations of the other sessions can still complete.
TerminalIsolated ==
    /\ [][\A s \in Sessions :
            ~Terminal(s) /\ Terminal(s)' =>
                /\ \A t \in Sessions \ {s} : SessionState(t)' = SessionState(t)
                /\ crashed' = crashed /\ mainVars' = mainVars]_vars
    /\ [](\A s \in Sessions :
            Terminal(s) /\ ~crashed => \A t \in Sessions \ {s} : CanProceed(t))

TerminalIsolatedReached ==
    \E s, t \in Sessions :
        /\ s # t /\ ~crashed /\ mainPc = "run"
        /\ Terminal(s) /\ last[s] = "resolve_err"
        /\ running_[t] /\ ws_[t] = "open" /\ last[t] = "read_ok"
        /\ pending[t]["read"] = 1 /\ reconnect_attempts_[t] = 0

\* A completion handler of session s runs with an error: at the resolve, the
\* TCP connect, the setting of SNI, the TLS handshake, the WebSocket handshake,
\* the subscription write or a frame read.
StageError(s) ==
    \/ OnResolve(s, "err")
    \/ \E sni \in BOOLEAN : OnConnect(s, "err", sni)
    \/ OnConnect(s, "ok", FALSE)
    \/ OnSslHandshake(s, "err")
    \/ OnWsHandshake(s, "err")
    \/ OnSubscribeWrite(s, "err")
    \/ \E f \in Frames : OnRead(s, "err", f)

\* C12: for a running session below the attempt cap, an error at any stage
\* starts the backoff timer and counts one attempt, the firing of the timer
\* issues a resolve, and the session always has a timer or an operation
\* pending (or is inside the price callback).
ErrorBacksOff ==
    /\ [][\A s \in Sessions :
            running_[s] /\ reconnect_attempts_[s] < MAX_RECONNECT_ATTEMPTS =>
                /\ StageError(s) =>
                      /\ pending'[s]["timer"] = pending[s]["timer"] + 1
                      /\ reconnect_attempts_'[s] = reconnect_attempts_[s] + 1
                /\ OnTimer(s) =>
                      pending'[s]["resolve"] = pending[s]["resolve"] + 1]_vars
    /\ [](\A s \in Sessions :
            running_[s] /\ reconnect_attempts_[s] < MAX_RECONNECT_ATTEMPTS =>
                Pending(s) > 0 \/ bpc[s] # None)

ErrorBacksOffReached ==
    \E s, t \in Sessions :
        /\ s # t
        /\ running_[s] /\ last[s] = "sni_err" /\ pending[s]["timer"] = 1
        /\ reconnect_attempts_[s] = 2
        /\ running_[t] /\ last[t] = "timer" /\ pending[t]["resolve"] = 1
        /\ reconnect_attempts_[t] = 1

\* C13: when a running session reads a frame that does not decode to a tick,
\* no update is created and no callback is entered, reconnect_attempts_ and
\* the stream are unchanged, no timer is started, and the next read is pending.
DecodeFailureDropped ==
    [][\A s \in Sessions, f \in Frames :
          running_[s] /\ ~IsTick(f) /\ OnRead(s, "ok", f) =>
              /\ nextU' = nextU /\ cur' = cur /\ bpc'[s] = None
              /\ reconnect_attempts_'[s] = reconnect_attempts_[s]
              /\ ws_'[s] = ws_[s]
              /\ pending'[s]["timer"] = pending[s]["timer"]
              /\ pending'[s]["resolve"] = pending[s]["resolve"]
              /\ pending'[s]["read"] = 1]_vars

DecodeFailureDroppedReached ==
    \E s \in Sessions :
        /\ running_[s] /\ ws_[s] = "open" /\ last[s] = "read_ok"
        /\ nextU = 1 /\ bpc[s] = None
        /\ reconnect_attempts_[s] = 0 /\ pending[s] = Issue(NoOps, "read")

\* The frame has the tick shape of venue V: the marks of V's ticker channel
\* and a symbol field, with bid and ask prices that are decimal numbers.
TickShape(V, F) ==
    CASE V = "Binance" ->
           /\ F.kv["s"] # Absent
           /\ StodConverts(F.kv["b"]) /\ StodConverts(F.kv["a"])
      [] V = "Kraken" ->
           /\ F.top = "array" /\ F.ticker
           /\ StodConverts(F.kv["b"]) /\ StodConverts(F.kv["a"])
      [] V = "Coinbase" ->
           /\ F.kv["type"] = "ticker" /\ F.kv["product_id"] # Absent
           /\ StodConverts(F.kv["best_bid"]) /\ StodConverts(F.kv["best_ask"])
      [] V = "Bybit" ->
           /\ F.kv["topic"] # Absent /\ StartsWithTickers(F.kv["topic"])
           /\ F.kv["data"] # Absent /\ F.kv["symbol"] # Absent
           /\ StodConverts(F.kv["bid1Price"]) /\ StodConverts(F.kv["ask1Price"])
      [] OTHER ->
           /\ F.kv["data"] # Absent /\ F.kv["instId"] # Absent
           /\ StodConverts(F.kv["bidPx"]) /\ StodConverts(F.kv["askPx"])
\* The venue symbol of the frame as V looks it up (Binance in lower case).
FrameSymbol(V, F) ==
    CASE V = "Binance" -> IF F.kv["s"] = Absent THEN "" ELSE ToLower(F.kv["s"])
      [] V = "Kraken" -> F.last
      [] V = "Coinbase" -> IF F.kv["product_id"] = Absent THEN "" ELSE F.kv["product_id"]
      [] V = "Bybit" -> IF F.kv["symbol"] = Absent THEN "" ELSE F.kv["symbol"]
      [] OTHER -> IF F.kv["instId"] = Absent THEN "" ELSE F.kv["instId"]
NativeSymbols(V) == {pair_mapping_(V)[c] : c \in Canonical}

\* C14: a call of parse_message lets no exception out and calls the callback
\* at most once; it calls it zero times for a frame that has not the venue's
\* tick shape or whose symbol is not in the venue's reverse map, and only
\* for a frame whose symbol is one of the venue's four native symbols.
ParserTolerant ==
    ppc = "done" =>
        /\ ~raised
        /\ Len(emitted) <= 1
        /\ ~(TickShape(venue, frame)
               /\ FrameSymbol(venue, frame) \in DOMAIN reverse_mapping_(venue))
             => emitted = <<>>
        /\ emitted # <<>> => FrameSymbol(venue, frame) \in NativeSymbols(venue)

ParserTolerantReached ==
    /\ ppc = "done" /\ venue = "Kraken"
    /\ frame.top = "array" /\ frame.ticker /\ frame.last = "XBT/USDT"
    /\ frame.kv["b"] = "abc" /\ frame.kv["a"] = "50000.00"
    /\ emitted = <<>> /\ ~raised

\* C15: for every venue the reverse map takes the native symbol of each
\* canonical pair back to that pair, the forward map is injective and the
\* reverse map has four entries; the pair a parser hands to the callback is
\* the one whose native symbol the frame carries.
SymbolRoundTrip ==
    /\ \A V \in Venues :
          LET fwd == pair_mapping_(V)
              rev == reverse_mapping_(V) IN
          /\ \A C \in Canonical : fwd[C] \in DOMAIN rev /\ rev[fwd[C]] = C
          /\ \A C, D \in Canonical : fwd[C] = fwd[D] => C = D
          /\ Cardinality(DOMAIN rev) = 4
    /\ ppc = "done" /\ emitted # <<>> =>
          pair_mapping_(venue)[emitted[1]] = FrameSymbol(venue, frame)

SymbolRoundTripReached ==
    /\ ppc = "done" /\ venue = "Kraken"
    /\ frame.last = "XBT/USDT"
    /\ emitted = <<"BTC/USDT">>

\* C16: while the callback of a session runs the session has no read pending,
\* so no further frame of it can be received; and the callback is entered for
\* a new frame only when the session's previous callback has returned, the
\* new update being later in receipt order than every earlier one.
CallbackInOrder ==
    /\ [](\A s \in Sessions : bpc[s] # None => pending[s]["read"] = 0 /\ cur[s] # 0)
    /\ [][\A s \in Sessions :
            cur'[s] # cur[s] /\ cur'[s] # 0 =>
                /\ bpc[s] = None /\ cur[s] = 0
                /\ cur'[s] = nextU /\ nextU' = nextU + 1
                /\ \A t \in Sessions : cur[t] < cur'[s]
                /\ \A i \in 1..Len(acqOrder) : acqOrder[i] < cur'[s]]_vars

CallbackInOrderReached ==
    \E s, t \in Sessions :
        /\ s # t /\ started[t] = 0
        /\ bpc[s] = "lock" /\ cur[s] = 2
        /\ acqOrder = <<1>> /\ Returned = {1}

\* C17: every completion of an accept, with or without an error, leaves an
\* accept pending or the accept handler running.
AcceptLoop ==
    [][(\E ec \in ErrorCodes : DispatchAccept(ec)) \/ OnAcceptThrow =>
          accPc' # None]_vars

\* C18: once an accept has failed, the process ends with a non-zero status:
\* main() returns 1 or the process is brought down.
AcceptFailureExits == (accLast = "err") ~> (exitCode = 1 \/ crashed)

\* C19: once the signal handler has cleared the running flag, main() comes to
\* return 0 (unless an exception brings the process down first).
ShutdownCompletes == (~running /\ ~crashed) ~> (exitCode = 0 \/ crashed)

\* C20: reconnect_attempts_ is always between 0 and 10, and a step changes it
\* only by adding 1 while the session is running and below the cap (the step
\* of reconnect() that starts the timer), or by setting it to 0 in start() or
\* in the handler of a successful WebSocket handshake.
AttemptsBounded ==
    /\ [](\A s \in Sessions :
            reconnect_attempts_[s] \in 0..MAX_RECONNECT_ATTEMPTS)
    /\ [][\A s \in Sessions :
            reconnect_attempts_'[s] # reconnect_attempts_[s] =>
                \/ /\ reconnect_attempts_'[s] = reconnect_attempts_[s] + 1
                   /\ running_[s]
                   /\ reconnect_attempts_[s] < MAX_RECONNECT_ATTEMPTS
                   /\ pending'[s]["timer"] = pending[s]["timer"] + 1
                \/ /\ reconnect_attempts_'[s] = 0
                   /\ Start(s) \/ OnWsHandshake(s, "ok")]_vars

AttemptsBoundedReached ==
    \E s, t \in Sessions :
        /\ s # t
        /\ running_[s] /\ reconnect_attempts_[s] = MAX_RECONNECT_ATTEMPTS
        /\ last[s] = "ssl_err" /\ Idle(s)
        /\ ~allFail[t] /\ last[t] = "ws_ok" /\ reconnect_attempts_[t] = 0

\* A running session has nothing pending and no handler running: reconnect()
\* has returned at the cap and reported "Max reconnection attempts reached".
GaveUp(s) == started[s] > 0 /\ running_[s] /\ Idle(s)

\* C21: a running session has given up only when reconnect() has made 10
\* attempts since start() or since the last successful WebSocket handshake;
\* and at every error of the subscription write or of a read of a running
\* session, however many such errors came before, the session starts the
\* backoff timer as its first attempt and has not given up.
TerminalAfterTenInARow ==
    /\ [](\A s \in Sessions : GaveUp(s) => sinceWs[s] = MAX_RECONNECT_ATTEMPTS)
    /\ [][\A s \in Sessions :
            running_[s] /\ (OnSubscribeWrite(s, "err") \/ \E f \in Frames : OnRead(s, "err", f))
                => /\ sinceWs'[s] = 1
                   /\ pending'[s]["timer"] = 1
                   /\ ~GaveUp(s)']_vars

TerminalAfterTenInARowReached ==
    \E s, t \in Sessions :
        /\ s # t
        /\ GaveUp(s) /\ ~allFail[s] /\ last[s] = "ws_err"
        /\ sinceWs[s] = MAX_RECONNECT_ATTEMPTS
        /\ running_[t] /\ last[t] = "write_err" /\ sinceWs[t] = 1
        /\ pending[t]["timer"] = 1

\* C22: a session started once has at most one asynchronous operation
\* outstanding (so at most one read), and none while its on_read handler is
\* inside the callback; an operation is issued only by start() or by the
\* handler that has just taken the one outstanding operation off: another
\* completion handler, or on_read coming back from the callback.
OneOutstanding ==
    /\ [](\A s \in Sessions :
            /\ Pending(s) <= 1
            /\ bpc[s] # None => Pending(s) = 0)
    /\ [][\A s \in Sessions, op \in Ops :
            pending'[s][op] > pending[s][op] =>
                /\ pending'[s] = Issue(NoOps, op)
                /\ \/ Start(s)
                   \/ Pending(s) = 1 /\ bpc[s] = None /\ last'[s] # last[s]
                   \/ Pending(s) = 0 /\ bpc[s] = "iter" /\ bpc'[s] = None]_vars

OneOutstandingReached ==
    \E s, t \in Sessions :
        /\ s # t
        /\ last[s] = "read_ok" /\ bpc[s] = None /\ nextU > 1
        /\ pending[s] = Issue(NoOps, "read")
        /\ last[t] = "read_err" /\ pending[t] = Issue(NoOps, "timer")

\* A completion handler of session s is running on a worker thread: on_read,
\* inside the callback, with its read of running_ and its ws_->async_read
\* still to come.
HandlerRunning(s) == bpc[s] # None

\* C23: while a completion handler of a session runs, no other handler of the
\* session can run (nothing of the session is pending), and main() does not
\* call stop() on the session.
SessionSingleThreaded ==
    /\ [](\A s \in Sessions : HandlerRunning(s) => Pending(s) = 0)
    /\ [][\A s \in Sessions : MainStop(s) => ~HandlerRunning(s)]_vars

\* The threads that are inside a critical section on clients_: the acceptor
\* between lock and push_back, a session inside remove_if.
InCritical ==
    {s \in Sessions : bpc[s] = "iter"} \cup (IF accPc = "insert" THEN {Acceptor} ELSE {})

\* C24: at most one thread is in a critical section on clients_ and it holds
\* clients_mutex_; clients_ changes only in a step of the holder (the push_back
\* of handle_accept or the erase that ends a broadcast_price), a chunk is
\* written to a consumer only by the session that holds the mutex, and a
\* session that stays in its iteration keeps the mutex.
ConsumerSetGuarded ==
    /\ [](/\ Cardinality(InCritical) <= 1
          /\ \A h \in InCritical : clients_mutex_ = h
          /\ InCritical = {} => clients_mutex_ = None)
    /\ [][/\ clients_' # clients_ =>
               \/ clients_mutex_ = Acceptor /\ HandleAcceptInsert
               \/ \E s \in Sessions : clients_mutex_ = s /\ BroadcastReturn(s)
          /\ sent' # sent =>
               \E s \in Sessions :
                   clients_mutex_ = s /\ bpc[s] = "iter" /\ clients_mutex_' = s
          /\ \A s \in Sessions :
               bpc[s] = "iter" /\ bpc'[s] = "iter" =>
                   clients_mutex_' = s /\ clients_' = clients_]_vars

ConsumerSetGuardedReached ==
    \E s, t \in Sessions :
        /\ s # t
        /\ bpc[s] = "iter" /\ clients_mutex_ = s
        /\ Len(clients_) = 1 /\ bIdx[s] = 1 /\ bPart[s] > 1
        /\ bpc[t] = "lock" /\ accPc = "lock"

\* C25: the handler of a successful WebSocket handshake issues a read and no
\* write when the subscribe message is empty, and one write and no read when
\* it is not; the read is then issued by the handler of the write when the
\* write succeeded, and not when it failed; a write and a read are never
\* pending together and a session with an empty message never writes.
SubscribeThenRead ==
    /\ [](\A s \in Sessions :
            /\ pending[s]["write"] <= 1
            /\ pending[s]["write"] > 0 => pending[s]["read"] = 0
            /\ SubscribeMsgEmpty(s) => pending[s]["write"] = 0)
    /\ [][\A s \in Sessions :
            /\ OnWsHandshake(s, "ok") =>
                  IF SubscribeMsgEmpty(s)
                  THEN /\ pending'[s]["read"] = pending[s]["read"] + 1
                       /\ pending'[s]["write"] = pending[s]["write"]
                  ELSE /\ pending'[s]["write"] = pending[s]["write"] + 1
                       /\ pending'[s]["read"] = pending[s]["read"]
            /\ OnSubscribeWrite(s, "ok") =>
                  /\ pending'[s]["read"] = pending[s]["read"] + 1
                  /\ pending'[s]["write"] = pending[s]["write"] - 1
            /\ OnSubscribeWrite(s, "err") => pending'[s]["read"] = pending[s]["read"]]_vars

SubscribeThenReadReached ==
    \E s, t \in Sessions :
        /\ SubscribeMsgEmpty(s) /\ last[s] = "ws_ok"
        /\ pending[s] = Issue(NoOps, "read")
        /\ ~SubscribeMsgEmpty(t) /\ last[t] = "write_ok"
        /\ pending[t] = Issue(NoOps, "read")

\* C26: every chunk in a consumer's stream is of an update whose
\* broadcast_price took the mutex after the consumer was inserted, and a
\* broadcast_price that found clients_ empty returns with clients_ empty and
\* without a chunk of its update in any consumer's stream.
NoReplay ==
    /\ [](\A c \in Conns :
            \A i \in 1..Len(sent[c]) : Pos(sent[c][i][1]) > joinAt[c])
    /\ [][\A s \in Sessions :
            BroadcastReturn(s) /\ clients_ = <<>> =>
                /\ clients_' = <<>>
                /\ \A c \in Conns : cur[s] \notin Seen(sent'[c])]_vars

NoReplayReached ==
    /\ acqOrder = <<1, 2>> /\ Returned = {1, 2}
    /\ clients_ = <<1>> /\ joinAt[1] = 1
    /\ sent[1] = Line(2)

\* C27: once stop() has returned for a session, no step enters the callback
\* of that session and no step of the session creates an update.
NoCallbackAfterStop ==
    [][\A s \in Sessions :
          stopped[s] =>
              /\ ~(bpc[s] = None /\ bpc'[s] # None)
              /\ cur'[s] # cur[s] => cur'[s] = 0]_vars

\* C28: whenever a session has a read outstanding that has not completed,
\* buffer_ holds nothing of an earlier frame or connection: it was empty when
\* the read was issued.
ReadIntoEmptyBuffer ==
    \A s \in Sessions : pending[s]["read"] > 0 => buffer_[s] = Empty

====
